---- MODULE Spec2Model ----
(***************************************************************************)
(* The controller/worker protocol of gegl.wasm's image editor:             *)
(*   - GeglWorker (main thread dispatcher), gegl-worker-wrapper.js 14-203  *)
(*   - the worker runtime (handleInit/handleProcess/handleCancel/          *)
(*     handleCleanup), gegl-worker-wrapper.js 217-452                      *)
(*   - GeglProcessorWrapper::work, gegl-bindings.cpp 232-237               *)
(* Two single-threaded contexts joined by two ordered message queues.      *)
(* Every handler of either context runs to completion; the only worker     *)
(* code that spans several steps of the model is the synchronous           *)
(* while-loop of handleProcess, during which the worker takes no message.  *)
(***************************************************************************)
EXTENDS Integers, Sequences, FiniteSets, TLC

\* ---- bounds of the model ------------------------------------------------
\* calls the application makes on one GeglWorker (init, process, cancel,
\* setProgressCallback, cleanup)
MaxApi == 2
\* units of work the engine needs for one request
MaxUnits == 3
\* length of an operation list
MaxOps == 1

\* ---- values --------------------------------------------------------------
\* progress fractions are kept as integers: ProgressOne stands for 1.0
ProgressOne == 6 * 1

GoodOp == "gegl:invert"
BadOp == "invalid:operation"
OpNames == {GoodOp, BadOp}

GoodUrl == "gegl.js"
BadUrl == "missing.js"

RECURSIVE SeqsUpTo(_, _)
SeqsUpTo(S, n) ==
    IF n = 0 THEN {<<>>}
    ELSE LET shorter == SeqsUpTo(S, n - 1)
         IN shorter \cup {Append(s, x) : s \in {t \in shorter : Len(t) = n - 1}, x \in S}

\* process() hands its operation list on unread: it is called with the empty
\* list and with a list of one known operation; longer lists and lists with
\* an unknown name are posted to the worker runtime directly (WorkerOpLists)
OpLists == {<<>>, <<GoodOp>>}

\* the engine finishes a processor in one unit of work or in MaxUnits units
UnitCounts == {1, MaxUnits}

\* the image of the j-th process() call: every call submits another shape
ShapeOf(j) == [width |-> j, height |-> MaxApi + 1 - j]

Requests(j) ==
    {[width |-> ShapeOf(j).width, height |-> ShapeOf(j).height, operations |-> ops] :
        ops \in OpLists}

NoImage == [width |-> 0, height |-> 0]

NoProcessor == [units |-> 0, done |-> 0]

VARIABLES
    wasmUrl,      \* constructor argument of GeglWorker
    gw,           \* the GeglWorker object: isInitialized, isProcessing, resolvers, onProgress
    mpc,          \* main thread: "run", or "terminating" inside cleanup()
    terminated,   \* worker.terminate() has been called
    initP,        \* promises returned by init(): "none","pending","resolved","rejected"
    initTimer,    \* the 30 s timers of init(), armed or not
    calls,        \* the process() calls and their promises
    toWorker,     \* messages posted to the worker, in order
    toMain,       \* messages posted by the worker, in order
    wk,           \* worker globals: isInitialized, currentProcessor, isCancelled, geglModule
    wpc,          \* worker position: "idle", "loop" (the while of handleProcess), "after"
    wloc,         \* locals of the running handleProcess: progress, imageData, id
    initTasks,    \* handleInit invocations suspended at their await
    gegl_initialized, \* the engine's static flag (gegl-bindings.cpp)
    crashed,      \* the worker context died
    emitted,      \* per request: what the worker emitted for it
    cbLog,        \* per request: the values the progress callback was invoked with
    nApi,         \* number of calls the application has made
    nReplies,     \* number of messages a free-running worker has posted (SpecDispatcher)
    cleanedUp,    \* handleCleanup has run
    progressive,  \* a GeglWasmProgressive (wasm-progressive.c): yield_interval, work_count
    yielded,      \* what the calls made on progressive did: units run since the last yield
    dp,           \* the pixel data of one request on its way through process() and the worker
    gl,           \* class Gegl (high-level API): its static flag and the calls made on it
    mp            \* a MemoryProfiler (memory-profiler.js) and the clock it reads

vars == <<wasmUrl, gw, mpc, terminated, initP, initTimer, calls, toWorker, toMain,
          wk, wpc, wloc, initTasks, gegl_initialized, crashed, emitted, cbLog, nApi,
          nReplies, cleanedUp, progressive, yielded, dp, gl, mp>>

sideVars == <<progressive, yielded, dp, gl, mp>>

mainVars == <<gw, mpc, terminated, initP, initTimer, calls, cbLog, nApi>>
workerVars == <<wk, wpc, wloc, initTasks, gegl_initialized, emitted>>

CallIds == 1..MaxApi
InitIds == 1..MaxApi

\* ---- messages ------------------------------------------------------------
Msg(type, id, imageData, operations, progress) ==
    [type |-> type, id |-> id, imageData |-> imageData,
     operations |-> operations, progress |-> progress]

InitMsg == Msg("init", 0, NoImage, <<>>, 0)
ProcessMsg(j, req) ==
    Msg("process", j, [width |-> req.width, height |-> req.height], req.operations, 0)
CancelMsg == Msg("cancel", 0, NoImage, <<>>, 0)
CleanupMsg == Msg("cleanup", 0, NoImage, <<>>, 0)

ReadyMsg == Msg("ready", 0, NoImage, <<>>, 0)
ProgressMsg(j, p) == Msg("progress", j, NoImage, <<>>, p)
ResultMsg(j, imageData) == Msg("result", j, imageData, <<>>, 0)
ErrorMsg(j) == Msg("error", j, NoImage, <<>>, 0)
CancelledMsg(j) == Msg("cancelled", j, NoImage, <<>>, 0)
ErrorEvent == Msg("errorevent", 0, NoImage, <<>>, 0)

PostToWorkerAlways(q, m) == Append(q, m)

\* worker.postMessage: a terminated worker takes no message
PostToWorker(q, m) == IF terminated THEN q ELSE Append(q, m)

\* ---- GeglWorker: constructor ---------------------------------------------
NoCall ==
    [status |-> "none", code |-> "none", init |-> 0,
     req |-> [width |-> 0, height |-> 0, operations |-> <<>>],
     earlier |-> FALSE, cancelled |-> FALSE, result |-> NoImage, from |-> 0]

NoEmit ==
    [progress |-> <<>>, terminal |-> "none", terminals |-> 0, threw |-> FALSE,
     nodes |-> <<>>, conns |-> <<>>, processor |-> FALSE, attached |-> 0, work |-> 0,
     cancelledBefore |-> FALSE]

\* ---- GeglWasmProgressive and the request data: values ---------------------
\* gegl_wasm_progressive_new, lines 42-56
NewProgressive == [yield_interval |-> 1, work_count |-> 0]

\* nothing was called on the progressive processor yet (requested: the last
\* argument of set_yield_interval, -1 for none)
NoYield == [units |-> 0, since |-> 0, sinceSet |-> 0, requested |-> -1, trapped |-> FALSE]

NoPixels == [data |-> <<>>, width |-> 0, height |-> 0]

\* no request is on its way
NoData ==
    [pc |-> "idle",
     caller |-> [kind |-> "none", data |-> <<>>, width |-> 0, height |-> 0,
                 detached |-> FALSE],
     original |-> <<>>, operations |-> <<>>, message |-> NoPixels,
     buffer |-> <<>>, nodes |-> <<>>, rendered |-> <<>>,
     resultMessage |-> NoPixels, workerKeeps |-> FALSE, result |-> NoPixels]

\* ---- class Gegl and class MemoryProfiler: state after loading ---------------
\* "static _initialized = false"; engineInits and engineExits count the calls
\* of Module.initializeGegl and Module.cleanupGegl, log holds the calls made on
\* the class with what each threw or returned
GeglStatic ==
    [initialized |-> FALSE, engineInits |-> 0, engineExits |-> 0, log |-> <<>>]

NoSnapshot == [timestamp |-> 0, elapsed |-> 0, heapSize |-> 0]

NoReport == [made |-> FALSE, before |-> <<>>, history |-> <<>>, current |-> NoSnapshot,
             hasSummary |-> FALSE, duration |-> 0, totalSamples |-> 0]

\* the constructor of MemoryProfiler: isProfiling false, snapshots empty,
\* startTime null (0 here: like null it is falsy at line 124); now is
\* performance.now(), heapSize is Module.HEAPU8.length
NewMemoryProfiler ==
    [isProfiling |-> FALSE, snapshots |-> <<>>, startTime |-> 0,
     now |-> 1, heapSize |-> 1, report |-> NoReport]

Init ==
    /\ wasmUrl \in {GoodUrl, BadUrl}
    /\ gw = [isInitialized |-> FALSE, isProcessing |-> FALSE, initResolver |-> 0,
             processResolver |-> 0, processRejecter |-> 0, onProgress |-> FALSE]
    /\ mpc = "run"
    /\ terminated = FALSE
    /\ initP = [k \in InitIds |-> "none"]
    /\ initTimer = [k \in InitIds |-> FALSE]
    /\ calls = [j \in CallIds |-> NoCall]
    /\ toWorker = <<>>
    /\ toMain = <<>>
    /\ wk = [isInitialized |-> FALSE, currentProcessor |-> NoProcessor,
             isCancelled |-> FALSE, geglModule |-> FALSE]
    /\ wpc = "idle"
    /\ wloc = [progress |-> 0, imageData |-> NoImage, id |-> 0]
    /\ initTasks = 0
    /\ gegl_initialized = FALSE
    /\ crashed = FALSE
    /\ emitted = [j \in CallIds |-> NoEmit]
    /\ cbLog = [j \in CallIds |-> <<>>]
    /\ nApi = 0
    /\ nReplies = 0
    /\ cleanedUp = FALSE
    /\ progressive = NewProgressive
    /\ yielded = NoYield
    /\ dp = NoData
    /\ gl = GeglStatic
    /\ mp = NewMemoryProfiler


\* ---- GeglWorker: helpers -------------------------------------------------
FreeInit == CHOOSE k \in InitIds : initP[k] = "none" /\ \A i \in InitIds : i < k => initP[i] # "none"
FreeCall == CHOOSE j \in CallIds : calls[j].status = "none" /\ \A i \in CallIds : i < j => calls[i].status # "none"

Unsettled(c) == c.status \in {"awaitInit", "pending"}

\* process(), lines 73-98: the part after the initialization check, for call j
SubmitGw(g, j) ==
    IF g.isProcessing THEN g
    ELSE [g EXCEPT !.isProcessing = TRUE, !.processResolver = j, !.processRejecter = j]

SubmitQueueNever(g, q, j, req) == q

SubmitQueueUnlessEmpty(g, q, j, req) ==
    IF g.isProcessing \/ req.operations = <<>> THEN q
    ELSE PostToWorker(q, ProcessMsg(j, req))

SubmitQueue(g, q, j, req) ==
    IF g.isProcessing THEN q ELSE PostToWorker(q, ProcessMsg(j, req))

SubmitCall(g, c) ==
    IF g.isProcessing
    THEN [c EXCEPT !.status = "rejected", !.code = "busy"]
    ELSE [c EXCEPT !.status = "pending"]

\* the process() call suspended at "await this.init()" on init promise k (0: none)
Waiter(cs, k) ==
    IF \E j \in CallIds : cs[j].status = "awaitInit" /\ cs[j].init = k
    THEN CHOOSE j \in CallIds : cs[j].status = "awaitInit" /\ cs[j].init = k
    ELSE 0

\* init promise k was resolved: the call awaiting it resumes at line 73
\* (a microtask: it runs before the next message or application call)
ResumeGw(g, cs, k) ==
    IF Waiter(cs, k) = 0 THEN g ELSE SubmitGw(g, Waiter(cs, k))

ResumeQueue(g, q, cs, k) ==
    IF Waiter(cs, k) = 0 THEN q
    ELSE SubmitQueue(g, q, Waiter(cs, k), cs[Waiter(cs, k)].req)

ResumeCalls(g, cs, k) ==
    IF Waiter(cs, k) = 0 THEN cs
    ELSE [cs EXCEPT ![Waiter(cs, k)] = SubmitCall(g, cs[Waiter(cs, k)])]

\* ---- GeglWorker: application calls ---------------------------------------
\* init(), lines 39-59
AppInit ==
    /\ mpc = "run"
    /\ nApi < MaxApi
    /\ nApi' = nApi + 1
    /\ LET k == FreeInit IN
       IF gw.isInitialized
       THEN /\ initP' = [initP EXCEPT ![k] = "resolved"]
            /\ UNCHANGED <<gw, toWorker, initTimer>>
       ELSE /\ gw' = [gw EXCEPT !.initResolver = k]
            /\ toWorker' = PostToWorker(toWorker, InitMsg)
            /\ initP' = [initP EXCEPT ![k] = "pending"]
            /\ initTimer' = [initTimer EXCEPT ![k] = TRUE]
    /\ UNCHANGED <<wasmUrl, nReplies, cleanedUp, sideVars, mpc, terminated, calls, toMain, cbLog, crashed>>
    /\ UNCHANGED workerVars

\* process(imageData, operations), lines 68-99
AppProcess ==
    /\ mpc = "run"
    /\ nApi < MaxApi
    /\ nApi' = nApi + 1
    /\ \E req \in Requests(FreeCall) :
        LET j == FreeCall
            c == [NoCall EXCEPT !.req = req,
                                !.earlier = \E i \in CallIds : Unsettled(calls[i])]
        IN
        IF ~gw.isInitialized
        THEN LET k == FreeInit IN
                /\ gw' = [gw EXCEPT !.initResolver = k]
                /\ toWorker' = PostToWorker(toWorker, InitMsg)
                /\ initP' = [initP EXCEPT ![k] = "pending"]
                /\ initTimer' = [initTimer EXCEPT ![k] = TRUE]
                /\ calls' = [calls EXCEPT ![j] = [c EXCEPT !.status = "awaitInit", !.init = k]]
        ELSE /\ gw' = SubmitGw(gw, j)
             /\ toWorker' = SubmitQueue(gw, toWorker, j, req)
             /\ calls' = [calls EXCEPT ![j] = SubmitCall(gw, c)]
             /\ UNCHANGED <<initP, initTimer>>
    /\ UNCHANGED <<wasmUrl, nReplies, cleanedUp, sideVars, mpc, terminated, toMain, cbLog, crashed>>
    /\ UNCHANGED workerVars

CancelPostsAlways(g) == TRUE

\* the condition of cancel(), line 105
CancelPosts(g) == g.isProcessing

\* cancel(), lines 104-108
AppCancel ==
    /\ mpc = "run"
    /\ nApi < MaxApi
    /\ nApi' = nApi + 1
    /\ IF CancelPosts(gw)
       THEN /\ toWorker' = PostToWorker(toWorker, CancelMsg)
            /\ calls' = [j \in CallIds |->
                 IF /\ j = gw.processResolver
                    /\ calls[j].status = "pending"
                    /\ emitted[j].terminal = "none"
                    /\ ~terminated /\ ~crashed
                 THEN [calls[j] EXCEPT !.cancelled = TRUE]
                 ELSE calls[j]]
       ELSE UNCHANGED <<toWorker, calls>>
    /\ UNCHANGED <<wasmUrl, nReplies, cleanedUp, sideVars, gw, mpc, terminated, initP, initTimer, toMain, cbLog, crashed>>
    /\ UNCHANGED workerVars

\* setProgressCallback(callback), lines 200-202
AppSetProgressCallback ==
    /\ mpc = "run"
    /\ nApi < MaxApi
    /\ nApi' = nApi + 1
    /\ ~gw.onProgress
    /\ gw' = [gw EXCEPT !.onProgress = TRUE]
    /\ UNCHANGED <<wasmUrl, nReplies, cleanedUp, sideVars, mpc, terminated, initP, initTimer, calls, toWorker, toMain,
                   cbLog, crashed>>
    /\ UNCHANGED workerVars

\* cleanup(), line 114: the Cleanup message is posted ...
AppCleanup ==
    /\ mpc = "run"
    /\ nApi < MaxApi
    /\ nApi' = nApi + 1
    /\ mpc' = "terminating"
    /\ toWorker' = PostToWorker(toWorker, CleanupMsg)
    /\ UNCHANGED <<wasmUrl, nReplies, cleanedUp, sideVars, gw, terminated, initP, initTimer, calls, toMain, cbLog,
                   crashed>>
    /\ UNCHANGED workerVars

\* ... lines 115-117: and the worker is terminated, which discards what is
\* queued in either direction; the worker context runs in parallel in between
AppCleanupTerminate ==
    /\ mpc = "terminating"
    /\ mpc' = "run"
    /\ terminated' = TRUE
    /\ toWorker' = <<>>
    /\ toMain' = <<>>
    /\ gw' = [gw EXCEPT !.isInitialized = FALSE, !.isProcessing = FALSE]
    /\ UNCHANGED <<wasmUrl, nReplies, cleanedUp, sideVars, initP, initTimer, calls, cbLog, nApi, crashed>>
    /\ UNCHANGED workerVars

\* the setTimeout callback of init(), lines 53-57
TimerFire ==
    /\ mpc = "run"
    /\ \E k \in InitIds :
        /\ initTimer[k]
        /\ initTimer' = [initTimer EXCEPT ![k] = FALSE]
        /\ IF ~gw.isInitialized /\ initP[k] = "pending"
           THEN /\ initP' = [initP EXCEPT ![k] = "rejected"]
                /\ calls' = IF Waiter(calls, k) = 0 THEN calls
                            ELSE [calls EXCEPT ![Waiter(calls, k)].status = "rejected",
                                               ![Waiter(calls, k)].code = "timeout"]
           ELSE UNCHANGED <<initP, calls>>
    /\ UNCHANGED <<wasmUrl, nReplies, cleanedUp, sideVars, gw, mpc, terminated, toWorker, toMain, cbLog, nApi, crashed>>
    /\ UNCHANGED workerVars


\* ---- GeglWorker: handleMessage, lines 123-177 ----------------------------
MainCanReceive(type) ==
    /\ mpc = "run"
    /\ toMain # <<>>
    /\ Head(toMain).type = type

\* case 'ready', lines 127-133
MainOnReady ==
    /\ MainCanReceive("ready")
    /\ LET k == gw.initResolver
           g == [gw EXCEPT !.isInitialized = TRUE, !.initResolver = 0]
       IN
       /\ initP' = IF k # 0 /\ initP[k] = "pending"
                   THEN [initP EXCEPT ![k] = "resolved"] ELSE initP
       /\ gw' = IF k # 0 /\ initP[k] = "pending" THEN ResumeGw(g, calls, k) ELSE g
       /\ toWorker' = IF k # 0 /\ initP[k] = "pending"
                      THEN ResumeQueue(g, toWorker, calls, k) ELSE toWorker
       /\ calls' = IF k # 0 /\ initP[k] = "pending"
                   THEN ResumeCalls(g, calls, k) ELSE calls
    /\ toMain' = Tail(toMain)
    /\ UNCHANGED <<wasmUrl, nReplies, cleanedUp, sideVars, mpc, terminated, initTimer, cbLog, nApi, crashed>>
    /\ UNCHANGED workerVars

InvokeCallbackNewestFirst(log, progress) == <<progress>> \o log

\* this.onProgress(data.progress), line 138: log is the record of the calls
\* made to the callback so far
InvokeCallback(log, progress) == Append(log, progress)

\* case 'progress', lines 135-140
MainOnProgress ==
    /\ MainCanReceive("progress")
    /\ LET m == Head(toMain) IN
       cbLog' = IF gw.onProgress
                THEN [cbLog EXCEPT ![m.id] = InvokeCallback(@, m.progress)]
                ELSE cbLog
    /\ toMain' = Tail(toMain)
    /\ UNCHANGED <<wasmUrl, nReplies, cleanedUp, sideVars, gw, mpc, terminated, initP, initTimer, calls, toWorker,
                   nApi, crashed>>
    /\ UNCHANGED workerVars

DecodeResultSwapped(imageData) ==
    [width |-> imageData.height, height |-> imageData.width]

\* new Uint8ClampedArray(data.imageData.data) with the spread of data.imageData,
\* lines 146-149: width and height are taken over from the message
DecodeResult(imageData) == [width |-> imageData.width, height |-> imageData.height]

\* case 'result', lines 142-154
MainOnResult ==
    /\ MainCanReceive("result")
    /\ LET m == Head(toMain)
           j == gw.processResolver
       IN
       IF j # 0
       THEN /\ calls' = [calls EXCEPT ![j].status = "resolved",
                                      ![j].result = DecodeResult(m.imageData),
                                      ![j].from = m.id]
            /\ gw' = [gw EXCEPT !.isProcessing = FALSE,
                                !.processResolver = 0, !.processRejecter = 0]
       ELSE /\ gw' = [gw EXCEPT !.isProcessing = FALSE]
            /\ UNCHANGED calls
    /\ toMain' = Tail(toMain)
    /\ UNCHANGED <<wasmUrl, nReplies, cleanedUp, sideVars, mpc, terminated, initP, initTimer, toWorker, cbLog,
                   nApi, crashed>>
    /\ UNCHANGED workerVars

ErrorCodeNull(reason) == "null"

\* the code property of the GeglWorkerError a promise is rejected with
\* (constructor, lines 7-11): 'CANCELLED' is passed at line 171 only
ErrorCode(reason) == IF reason = "cancelled" THEN "CANCELLED" ELSE "null"

KeepBusy(g) == g

\* this.isProcessing = false, lines 157 and 183
ClearBusy(g) == [g EXCEPT !.isProcessing = FALSE]

\* the body shared by case 'error' (lines 156-166) and handleError (lines
\* 182-194): reject the pending process() promise with the given code, or
\* else call initResolver with the error object, which resolves init()
FailPending(code, m) ==
    LET j == gw.processRejecter
        k == gw.initResolver
        g == ClearBusy(gw)
    IN
    IF j # 0
    THEN /\ calls' = [calls EXCEPT ![j].status = "rejected", ![j].code = code,
                                   ![j].from = m.id]
         /\ gw' = [g EXCEPT !.processResolver = 0, !.processRejecter = 0]
         /\ UNCHANGED <<initP, toWorker>>
    ELSE IF k # 0
    THEN LET g2 == [g EXCEPT !.initResolver = 0]
             live == initP[k] = "pending"
         IN
         /\ initP' = IF live THEN [initP EXCEPT ![k] = "resolved"] ELSE initP
         /\ gw' = IF live THEN ResumeGw(g2, calls, k) ELSE g2
         /\ toWorker' = IF live THEN ResumeQueue(g2, toWorker, calls, k) ELSE toWorker
         /\ calls' = IF live THEN ResumeCalls(g2, calls, k) ELSE calls
    ELSE /\ gw' = g
         /\ UNCHANGED <<initP, toWorker, calls>>

\* case 'error', lines 156-166
MainOnError ==
    /\ MainCanReceive("error")
    /\ FailPending("error", Head(toMain))
    /\ toMain' = Tail(toMain)
    /\ UNCHANGED <<wasmUrl, nReplies, cleanedUp, sideVars, mpc, terminated, initTimer, cbLog, nApi, crashed>>
    /\ UNCHANGED workerVars

\* case 'cancelled', lines 168-175
MainOnCancelled ==
    /\ MainCanReceive("cancelled")
    /\ LET m == Head(toMain)
           j == gw.processRejecter
       IN
       IF j # 0
       THEN /\ calls' = [calls EXCEPT ![j].status = "rejected", ![j].code = "cancelled",
                                      ![j].from = m.id]
            /\ gw' = [gw EXCEPT !.isProcessing = FALSE,
                                !.processResolver = 0, !.processRejecter = 0]
       ELSE /\ gw' = [gw EXCEPT !.isProcessing = FALSE]
            /\ UNCHANGED calls
    /\ toMain' = Tail(toMain)
    /\ UNCHANGED <<wasmUrl, nReplies, cleanedUp, sideVars, mpc, terminated, initP, initTimer, toWorker, cbLog,
                   nApi, crashed>>
    /\ UNCHANGED workerVars

\* handleError(error), lines 182-194: the Worker's error event
MainOnErrorEvent ==
    /\ MainCanReceive("errorevent")
    /\ FailPending("fault", Head(toMain))
    /\ toMain' = Tail(toMain)
    /\ UNCHANGED <<wasmUrl, nReplies, cleanedUp, sideVars, mpc, terminated, initTimer, cbLog, nApi, crashed>>
    /\ UNCHANGED workerVars


\* ---- the engine, seen through the bindings -------------------------------
\* new Module.GeglNode(root, name): whether the constructor throws for a name
\* the engine does not know is the engine's choice (strict) 
NodeThrows(name, strict) == strict /\ name = BadOp

ConnectToSwapped(node, sink, input_pad, output_pad) ==
    [source |-> node, output |-> input_pad, sink |-> sink, input |-> output_pad]

\* GeglNodeWrapper::connectTo(sink, input_pad, output_pad), gegl-bindings.cpp
\* 193-195: gegl_node_connect_to (node, output_pad, sink.node, input_pad)
\* connects pad output_pad of this node to pad input_pad of the sink
ConnectTo(node, sink, input_pad, output_pad) ==
    [source |-> node, output |-> output_pad, sink |-> sink, input |-> input_pad]

\* the for-loop of handleProcess, lines 324-348, from descriptor i on;
\* b holds the nodes created (node i is made from descriptor i), the
\* connections made and currentNode (0: null)
RECURSIVE BuildChain(_, _, _, _)
BuildChain(operations, i, strict, b) ==
    IF i > Len(operations) THEN b
    ELSE IF NodeThrows(operations[i], strict) THEN [b EXCEPT !.threw = TRUE]
    ELSE BuildChain(operations, i + 1, strict,
            [b EXCEPT !.nodes = Append(@, operations[i]),
                      !.conns = IF b.currentNode # 0
                                THEN Append(@, ConnectTo(b.currentNode, i,
                                                         "input", "output"))
                                ELSE @,
                      !.currentNode = i])

EmptyChain == [nodes |-> <<>>, conns |-> <<>>, currentNode |-> 0, threw |-> FALSE]

BuildFailsIgnoringThrow(b) == b.currentNode = 0

BuildFailsWithoutEmptyCheck(b) == b.threw

\* the graph is not built: a node constructor threw (line 325), or the list
\* was empty and "No operations specified" is thrown (lines 350-352)
BuildFails(b) == b.threw \/ b.currentNode = 0

\* gegl_processor_work(processor, &prog): the fraction after `done` of `units`
EngineProgress(done, units) == (done * ProgressOne) \div units

ProgressCountdown(progress, prog) == ProgressOne - prog

\* currentProcessor.work([progress]), line 360 with gegl-bindings.cpp 232-237:
\* work() stores prog into element 0 of the array it is handed, which is a
\* fresh array literal; the local variable progress keeps its value
ProgressAfterWork(progress, prog) == progress

\* ---- worker runtime ------------------------------------------------------
SendMessageTwice(q, m) == Append(Append(q, m), m)

\* sendMessage(type, data), lines 243-245: one self.postMessage
SendMessage(q, m) == Append(q, m)

WorkerRuns == ~terminated /\ ~crashed

WorkerCanReceive(type) ==
    /\ WorkerRuns
    /\ wpc = "idle"
    /\ toWorker # <<>>
    /\ Head(toWorker).type = type

\* handleInit, lines 250-259: up to the await
WorkerOnInit ==
    /\ WorkerCanReceive("init")
    /\ toWorker' = Tail(toWorker)
    /\ IF wk.isInitialized
       THEN /\ toMain' = SendMessage(toMain, ReadyMsg)
            /\ UNCHANGED initTasks
       ELSE IF wasmUrl = BadUrl
       THEN /\ toMain' = SendMessage(toMain, ErrorMsg(0))
            /\ UNCHANGED initTasks
       ELSE /\ initTasks' = initTasks + 1
            /\ UNCHANGED toMain
    /\ UNCHANGED <<wasmUrl, nReplies, cleanedUp, sideVars, wk, wpc, wloc, gegl_initialized, emitted, crashed>>
    /\ UNCHANGED mainVars

\* handleInit, lines 281-287: after the await
WorkerInitFinish ==
    /\ WorkerRuns
    /\ wpc = "idle"
    /\ initTasks > 0
    /\ initTasks' = initTasks - 1
    /\ gegl_initialized' = TRUE
    /\ wk' = [wk EXCEPT !.geglModule = TRUE, !.isInitialized = TRUE]
    /\ toMain' = SendMessage(toMain, ReadyMsg)
    /\ UNCHANGED <<wasmUrl, nReplies, cleanedUp, sideVars, wpc, wloc, emitted, crashed, toWorker>>
    /\ UNCHANGED mainVars

NotInitializedNever(w) == FALSE

\* if (!isInitialized), line 300
NotInitialized(w) == ~w.isInitialized

\* handleProcess line 308: "isCancelled = false" before the graph is built,
\* whatever an earlier Cancel left in the flag.
ResetCancelledNot(w) == w

ResetCancelled(w) == [w EXCEPT !.isCancelled = FALSE]

WorkerOnProcess ==
    /\ WorkerCanReceive("process")
    /\ toWorker' = Tail(toWorker)
    /\ LET m == Head(toWorker) IN
       IF NotInitialized(wk)
       THEN /\ toMain' = SendMessage(toMain, ErrorMsg(m.id))
            /\ emitted' = [emitted EXCEPT ![m.id].terminal = "error",
                                          ![m.id].terminals = @ + 1,
                                          ![m.id].cancelledBefore = wk.isCancelled]
            /\ UNCHANGED <<wk, wpc, wloc>>
       ELSE \E strict \in BOOLEAN :
            LET b == BuildChain(m.operations, 1, strict, EmptyChain) IN
            IF BuildFails(b)
            THEN /\ wk' = ResetCancelled(wk)
                 /\ toMain' = SendMessage(toMain, ErrorMsg(m.id))
                 /\ emitted' = [emitted EXCEPT ![m.id].terminal = "error",
                                               ![m.id].terminals = @ + 1,
                                               ![m.id].threw = b.threw,
                                               ![m.id].nodes = b.nodes,
                                               ![m.id].conns = b.conns,
                                               ![m.id].cancelledBefore = wk.isCancelled]
                 /\ UNCHANGED <<wpc, wloc>>
            ELSE \E units \in UnitCounts :
                 /\ wk' = [ResetCancelled(wk) EXCEPT
                                 !.currentProcessor = [units |-> units, done |-> 0]]
                 /\ wloc' = [progress |-> 0, imageData |-> m.imageData, id |-> m.id]
                 /\ wpc' = "loop"
                 /\ emitted' = [emitted EXCEPT ![m.id].threw = b.threw,
                                               ![m.id].nodes = b.nodes,
                                               ![m.id].conns = b.conns,
                                               ![m.id].processor = TRUE,
                                               ![m.id].attached = b.currentNode,
                                               ![m.id].cancelledBefore = wk.isCancelled]
                 /\ UNCHANGED toMain
    /\ UNCHANGED <<wasmUrl, nReplies, cleanedUp, sideVars, initTasks, gegl_initialized, crashed>>
    /\ UNCHANGED mainVars

\* handleProcess, lines 360-365 and 393-397: one evaluation of the while
\* condition, with the loop body when it holds; work() may throw
WorkerLoop ==
    /\ WorkerRuns
    /\ wpc = "loop"
    /\ LET p == wk.currentProcessor
           done == p.done + 1
           id == wloc.id
       IN
       IF wk.isCancelled
       THEN /\ wpc' = "after"
            /\ UNCHANGED <<wk, wloc, toMain, emitted>>
       ELSE \E throws \in BOOLEAN :
            IF throws
            THEN /\ wk' = [wk EXCEPT !.currentProcessor.done = done]
                 /\ toMain' = SendMessage(toMain, ErrorMsg(id))
                 /\ emitted' = [emitted EXCEPT ![id].terminal = "error",
                                               ![id].terminals = @ + 1,
                                               ![id].work = done]
                 /\ wpc' = "idle"
                 /\ UNCHANGED wloc
            ELSE LET progress == ProgressAfterWork(wloc.progress,
                                                   EngineProgress(done, p.units)) IN
                 /\ wk' = [wk EXCEPT !.currentProcessor.done = done]
                 /\ wloc' = [wloc EXCEPT !.progress = progress]
                 /\ IF done < p.units
                    THEN /\ toMain' = SendMessage(toMain, ProgressMsg(id, progress))
                         /\ emitted' = [emitted EXCEPT ![id].progress = Append(@, progress),
                                                       ![id].work = done]
                         /\ UNCHANGED wpc
                    ELSE /\ wpc' = "after"
                         /\ emitted' = [emitted EXCEPT ![id].work = done]
                         /\ UNCHANGED toMain
    /\ UNCHANGED <<wasmUrl, nReplies, cleanedUp, sideVars, initTasks, gegl_initialized, crashed, toWorker>>
    /\ UNCHANGED mainVars

\* handleProcess, lines 367-391: after the loop
WorkerAfterLoop ==
    /\ WorkerRuns
    /\ wpc = "after"
    /\ wpc' = "idle"
    /\ LET id == wloc.id IN
       IF wk.isCancelled
       THEN /\ toMain' = SendMessage(toMain, CancelledMsg(id))
            /\ emitted' = [emitted EXCEPT ![id].terminal = "cancelled",
                                          ![id].terminals = @ + 1]
            /\ UNCHANGED wk
       ELSE /\ toMain' = SendMessage(toMain, ResultMsg(id, wloc.imageData))
            /\ emitted' = [emitted EXCEPT ![id].terminal = "result",
                                          ![id].terminals = @ + 1]
            /\ wk' = [wk EXCEPT !.currentProcessor = NoProcessor]
    /\ UNCHANGED <<wasmUrl, nReplies, cleanedUp, sideVars, wloc, initTasks, gegl_initialized, crashed, toWorker>>
    /\ UNCHANGED mainVars

\* handleCancel, lines 403-409
WorkerOnCancel ==
    /\ WorkerCanReceive("cancel")
    /\ toWorker' = Tail(toWorker)
    /\ wk' = [wk EXCEPT !.isCancelled = TRUE]
    /\ UNCHANGED <<wasmUrl, nReplies, cleanedUp, sideVars, wpc, wloc, initTasks, gegl_initialized, emitted, crashed, toMain>>
    /\ UNCHANGED mainVars

\* handleCleanup, lines 414-426, with cleanupGegl of gegl-bindings.cpp
WorkerOnCleanup ==
    /\ WorkerCanReceive("cleanup")
    /\ toWorker' = Tail(toWorker)
    /\ gegl_initialized' = IF wk.isInitialized THEN FALSE ELSE gegl_initialized
    /\ wk' = [isInitialized |-> FALSE, currentProcessor |-> NoProcessor,
              isCancelled |-> FALSE, geglModule |-> FALSE]
    /\ cleanedUp' = TRUE
    /\ UNCHANGED <<wasmUrl, sideVars, nReplies, wpc, wloc, initTasks, emitted, crashed, toMain>>
    /\ UNCHANGED mainVars

\* the worker context dies; the Worker object's error event is queued
WorkerFault ==
    /\ WorkerRuns
    /\ crashed' = TRUE
    /\ toMain' = Append(toMain, ErrorEvent)
    /\ UNCHANGED <<wasmUrl, nReplies, cleanedUp, sideVars, toWorker>>
    /\ UNCHANGED workerVars
    /\ UNCHANGED mainVars

\* ---- specification -------------------------------------------------------
Next ==
    \/ AppInit
    \/ AppProcess
    \/ AppCancel
    \/ AppSetProgressCallback
    \/ AppCleanup
    \/ AppCleanupTerminate
    \/ TimerFire
    \/ MainOnReady
    \/ MainOnProgress
    \/ MainOnResult
    \/ MainOnError
    \/ MainOnErrorEvent
    \/ WorkerOnInit
    \/ WorkerInitFinish
    \/ WorkerOnProcess
    \/ WorkerLoop
    \/ WorkerAfterLoop
    \/ WorkerOnCancel
    \/ WorkerOnCleanup
    \/ WorkerFault

Spec == Init /\ [][Next]_vars

\* ---- the worker runtime under any controller ------------------------------
\* messages a controller may post to self.onmessage (lines 431-452); the
\* Process messages are numbered in the order they are posted
MaxPosts == 3

WorkerOpLists == SeqsUpTo(OpNames, MaxOps + 1)

NextProcessId == Cardinality({j \in CallIds : emitted[j] # NoEmit})
                 + Cardinality({i \in 1..Len(toWorker) : toWorker[i].type = "process"}) + 1

RawPost ==
    /\ nApi < MaxPosts
    /\ nApi' = nApi + 1
    /\ \/ toWorker' = Append(toWorker, InitMsg)
       \/ toWorker' = Append(toWorker, CancelMsg)
       \/ toWorker' = Append(toWorker, CleanupMsg)
       \/ /\ NextProcessId \in CallIds
          /\ \E ops \in WorkerOpLists :
               toWorker' = Append(toWorker,
                   ProcessMsg(NextProcessId,
                       [width |-> ShapeOf(NextProcessId).width,
                        height |-> ShapeOf(NextProcessId).height,
                        operations |-> ops]))
    /\ UNCHANGED <<wasmUrl, nReplies, cleanedUp, sideVars, gw, mpc, terminated, initP, initTimer, calls, cbLog,
                   toMain, crashed>>
    /\ UNCHANGED workerVars

NextWorker ==
    \/ RawPost
    \/ WorkerOnInit
    \/ WorkerInitFinish
    \/ WorkerOnProcess
    \/ WorkerLoop
    \/ WorkerAfterLoop
    \/ WorkerOnCancel
    \/ WorkerOnCleanup

SpecWorker == Init /\ [][NextWorker]_vars

\* ---- the dispatcher under any worker --------------------------------------
\* messages a worker may post to GeglWorker.handleMessage / handleError
MaxReplies == 3

\* responses the worker has posted that the dispatcher has not handled yet
MaxInFlight == 1

\* progress fractions a worker may report
ReplyProgress == {0, ProgressOne}

\* the requests the dispatcher has posted a Process message for
PostedIds ==
    {toWorker[i].id : i \in {n \in 1..Len(toWorker) : toWorker[n].type = "process"}}

\* the request a response is about: the one posted last (0: none was posted)
ReplyId == IF PostedIds = {} THEN 0 ELSE CHOOSE j \in PostedIds : \A i \in PostedIds : i <= j

\* the worker posts a response (sendMessage, lines 243-245), or its error
\* event fires; the Process messages stay in toWorker as the record of what
\* was posted
RawReply ==
    /\ ~terminated
    /\ nReplies < MaxReplies
    /\ Len(toMain) < MaxInFlight
    /\ nReplies' = nReplies + 1
    /\ LET j == ReplyId IN
       \/ \E m \in {ReadyMsg, ErrorMsg(j), ErrorEvent} : toMain' = Append(toMain, m)
       \/ /\ j # 0
          /\ \E m \in {ProgressMsg(j, p) : p \in ReplyProgress}
                      \cup {ResultMsg(j, [width |-> ShapeOf(j).width,
                                          height |-> ShapeOf(j).height]),
                            CancelledMsg(j)} : toMain' = Append(toMain, m)
    /\ UNCHANGED <<wasmUrl, sideVars, cleanedUp, toWorker, crashed>>
    /\ UNCHANGED workerVars
    /\ UNCHANGED mainVars

NextDispatcher ==
    \/ AppInit
    \/ AppProcess
    \/ AppCancel
    \/ AppSetProgressCallback
    \/ AppCleanup
    \/ AppCleanupTerminate
    \/ TimerFire
    \/ MainOnReady
    \/ MainOnProgress
    \/ MainOnResult
    \/ MainOnError
    \/ MainOnCancelled
    \/ MainOnErrorEvent
    \/ RawReply

\* the engine location is read by the worker only
InitDispatcher == Init /\ wasmUrl = GoodUrl

SpecDispatcher == InitDispatcher /\ [][NextDispatcher]_vars


\* ---- GeglWasmProgressive, wasm-progressive.c ------------------------------
\* calls of gegl_wasm_progressive_work in one run
MaxWork == 6
\* largest interval handed to gegl_wasm_progressive_set_yield_interval
MaxInterval == 3

ClampIntervalNone(interval) == interval

\* MAX (1, interval), line 108
ClampInterval(interval) == IF 1 > interval THEN 1 ELSE interval

\* gegl_wasm_progressive_set_yield_interval, lines 102-109
ProgressiveSetYieldInterval ==
    /\ ~yielded.trapped
    /\ \E interval \in 0..MaxInterval :
         /\ progressive' = [progressive EXCEPT !.yield_interval = ClampInterval(interval)]
         /\ yielded' = [yielded EXCEPT !.requested = interval, !.sinceSet = 0]
    /\ UNCHANGED <<wasmUrl, nReplies, cleanedUp, dp, gl, mp, toWorker, toMain, crashed>>
    /\ UNCHANGED workerVars
    /\ UNCHANGED mainVars

\* gegl_wasm_progressive_work, lines 69-91: one gegl_processor_work, the
\* count, and emscripten_sleep(0) when the count is a multiple of the
\* interval; the remainder by an interval of 0 traps. work_count is a guint
\* and stays below MaxWork, far from its wrap-around
ProgressiveWork ==
    /\ ~yielded.trapped
    /\ progressive.work_count < MaxWork
    /\ LET count == progressive.work_count + 1 IN
       /\ progressive' = [progressive EXCEPT !.work_count = count]
       /\ IF progressive.yield_interval = 0
          THEN yielded' = [yielded EXCEPT !.units = @ + 1, !.trapped = TRUE]
          ELSE yielded' = [yielded EXCEPT
                  !.units = @ + 1,
                  !.sinceSet = @ + 1,
                  !.since = IF count % progressive.yield_interval = 0 THEN 0 ELSE @ + 1]
    /\ UNCHANGED <<wasmUrl, nReplies, cleanedUp, dp, gl, mp, toWorker, toMain, crashed>>
    /\ UNCHANGED workerVars
    /\ UNCHANGED mainVars

NextProgressive ==
    \/ ProgressiveSetYieldInterval
    \/ ProgressiveWork

InitProgressive == Init /\ wasmUrl = GoodUrl

SpecProgressive == InitProgressive /\ [][NextProgressive]_vars

\* ---- the pixel data of one request ----------------------------------------
\* images of up to MaxPixels pixels
MaxPixels == 2

\* 'RGBA u8' (wrapper lines 95 and 310): four bytes a pixel
BytesPerPixel == 4

PixelValues == {<<0, 0, 0, 255>>, <<100, 150, 200, 255>>, <<255, 10, 0, 128>>}

Shapes ==
    {s \in [width : 1..MaxPixels, height : 1..MaxPixels] : s.width * s.height <= MaxPixels}

\* the bytes of a sequence of pixels, row after row
Bytes(px) ==
    [i \in 1..(Len(px) * BytesPerPixel) |->
        px[((i - 1) \div BytesPerPixel) + 1][((i - 1) % BytesPerPixel) + 1]]

\* what a caller hands to process(): an ImageData, or a plain object whose
\* data is an ArrayBuffer
CallerImages ==
    UNION {{[kind |-> k, data |-> Bytes(px), width |-> s.width, height |-> s.height,
             detached |-> FALSE] :
                px \in [1..(s.width * s.height) -> PixelValues]} :
           k \in {"ImageData", "plain"}, s \in Shapes}

\* colour components are kept as integers: ColorOne stands for 1.0
ColorOne == 2

PropValue(type, string, number, r, g, b, a) ==
    [type |-> type, string |-> string, number |-> number,
     r |-> r, g |-> g, b |-> b, a |-> a]

\* property values by their JavaScript type; "other" is a value none of the
\* branches of lines 330-339 takes (a boolean, an object without r)
PropValues ==
    {PropValue("string", "nearest", 0, 0, 0, 0, 0),
     PropValue("number", "", 0, 0, 0, 0, 0),
     PropValue("number", "", 3, 0, 0, 0, 0),
     PropValue("other", "", 0, 0, 0, 0, 0)}
    \cup {PropValue("object", "", 0, r, 1, 0, a) : r \in {0, ColorOne}, a \in {0, 1, ColorOne}}

ColorOp == "gegl:color"

\* operation lists of the data path: invert alone, or one operation with one
\* property
DataOpLists ==
    {<<[operation |-> GoodOp, properties |-> <<>>]>>}
    \cup {<<[operation |-> ColorOp, properties |-> <<[key |-> "value", value |-> v]>>]>> :
            v \in PropValues}

ArrayBufferSliceTail(bytes) == SubSeq(bytes, 2, Len(bytes))

\* ArrayBuffer.prototype.slice() without arguments (line 84): a new buffer
\* holding the bytes from the first to the last
ArrayBufferSlice(bytes) == SubSeq(bytes, 1, Len(bytes))

TransferableDataOwnBuffer(image) ==
    [data |-> image.data, width |-> image.width, height |-> image.height, own |-> TRUE]

\* transferableData of process(), lines 81-89: for an ImageData a new object
\* around a copy of its buffer, else the caller's object itself (own: data is
\* the caller's buffer)
TransferableData(image) ==
    IF image.kind = "ImageData"
    THEN [data |-> ArrayBufferSlice(image.data), width |-> image.width,
          height |-> image.height, own |-> FALSE]
    ELSE [data |-> image.data, width |-> image.width, height |-> image.height,
          own |-> TRUE]

\* postMessage(message, [transferableData.data]), lines 92-97, as the caller
\* sees it: a buffer of the transfer list is detached
AfterTransfer(image, td) ==
    IF td.own THEN [image EXCEPT !.data = <<>>, !.detached = TRUE] ELSE image

\* new Uint8Array(buffer) and new Uint8ClampedArray(buffer), lines 317 and
\* 148: a view, element i is byte i of the buffer
TypedArrayView(bytes) == [i \in 1..Len(bytes) |-> bytes[i]]

\* emscripten::vecFromJSArray<uint8_t>, gegl-bindings.cpp 123, and
\* new Uint8Array(array), line 379: every element is converted to a byte
ToUint8Each(array) == [i \in 1..Len(array) |-> array[i] % 256]

Setting(key, kind, string, number, rgba) ==
    [key |-> key, kind |-> kind, string |-> string, number |-> number, rgba |-> rgba]

OrOneKeepsZero(a) == a

\* value.a || 1.0, line 337: 1.0 stands in for every falsy a, 0 included
OrOne(a) == IF a = 0 THEN ColorOne ELSE a

\* the loop over Object.entries(op.properties), lines 329-340, from entry i
\* on: the setProperty calls made on the node, in order
RECURSIVE SetProperties(_, _)
SetProperties(properties, i) ==
    IF i > Len(properties) THEN <<>>
    ELSE LET key == properties[i].key
             value == properties[i].value
         IN
         (IF value.type = "string"
          THEN <<Setting(key, "string", value.string, 0, <<>>)>>
          ELSE IF value.type = "number"
          THEN <<Setting(key, "double", "", value.number, <<>>)>>
          ELSE IF value.type = "object"
          THEN <<Setting(key, "color", "", 0,
                         <<value.r, value.g, value.b, OrOne(value.a)>>)>>
          ELSE <<>>)
         \o SetProperties(properties, i + 1)

\* the for-loop of lines 324-348 over the descriptors: node i with its
\* property settings and what its input pad is connected to; nothing is
\* connected to the input of the first node (the GeglBuffer of lines 313-317
\* is not handed to any node)
BuildNodes(operations) ==
    [i \in 1..Len(operations) |->
        [operation |-> operations[i].operation,
         settings |-> SetProperties(operations[i].properties, 1),
         input |-> IF i = 1 THEN "none" ELSE "node"]]

\* what the engine reads from an input pad nothing is connected to
Blank(width, height) == [i \in 1..(width * height * BytesPerPixel) |-> 0]

\* gegl:invert on RGBA u8 pixels: every colour channel c becomes 255 - c,
\* alpha stays
Invert(bytes) ==
    [i \in 1..Len(bytes) |->
        IF i % BytesPerPixel = 0 THEN bytes[i] ELSE 255 - bytes[i]]

\* one operation applied to the pixels at its input; only invert is described
EngineOperation(operation, bytes) ==
    IF operation = GoodOp THEN Invert(bytes) ELSE bytes

\* the pixels the processor's buffer holds when work() is done: the chain
\* applied to what the first node reads
RECURSIVE Render(_, _, _)
Render(nodes, i, bytes) ==
    IF i > Len(nodes) THEN bytes
    ELSE Render(nodes, i + 1, EngineOperation(nodes[i].operation, bytes))

ChainInput(nodes, buffer, width, height) ==
    IF nodes[1].input = "buffer" THEN buffer ELSE Blank(width, height)

\* GeglBufferWrapper::get, gegl-bindings.cpp 127-140: height * rowstride
\* bytes, rowstride = width * bytes_per_pixel
BufferGet(bytes, width, height) ==
    [i \in 1..(height * width * BytesPerPixel) |-> bytes[i]]

\* process(), lines 77-98: the promise executor, for an image and a list of
\* operations
DataProcess ==
    /\ dp.pc = "idle"
    /\ \E image \in CallerImages, operations \in DataOpLists :
        LET td == TransferableData(image) IN
        dp' = [dp EXCEPT !.pc = "posted",
                         !.original = image.data,
                         !.operations = operations,
                         !.message = [data |-> td.data, width |-> td.width,
                                      height |-> td.height],
                         !.caller = AfterTransfer(image, td)]
    /\ UNCHANGED <<wasmUrl, nReplies, cleanedUp, progressive, yielded, gl, mp, toWorker, toMain,
                   crashed>>
    /\ UNCHANGED workerVars
    /\ UNCHANGED mainVars

\* handleProcess, lines 310-356: the engine buffer is filled and the graph built
DataWorkerBuild ==
    /\ dp.pc = "posted"
    /\ dp' = [dp EXCEPT !.pc = "built",
                        !.buffer = ToUint8Each(TypedArrayView(dp.message.data)),
                        !.nodes = BuildNodes(dp.operations)]
    /\ UNCHANGED <<wasmUrl, nReplies, cleanedUp, progressive, yielded, gl, mp, toWorker, toMain,
                   crashed>>
    /\ UNCHANGED workerVars
    /\ UNCHANGED mainVars

\* sendMessage(type, data = {}), lines 243-245: the function has two
\* parameters and calls self.postMessage with the message alone, so the
\* transfer list a caller passes as a third argument reaches no postMessage
SendMessageTransferList(transfer) == {}

\* postMessage detaches in the sender exactly the buffers of its transfer
\* list; every other buffer of the message is cloned and stays with the sender
KeepsAfterPost(buffer, transfer) == buffer \notin transfer

\* handleProcess, lines 359-391: the work loop runs to its end and the Result
\* is sent; sendMessage (lines 243-245) takes no transfer list, so the
\* worker's array stays attached
DataWorkerResult ==
    /\ dp.pc = "built"
    /\ LET width == dp.message.width
           height == dp.message.height
           rendered == Render(dp.nodes, 1, ChainInput(dp.nodes, dp.buffer, width, height))
       IN
       dp' = [dp EXCEPT !.pc = "answered",
                        !.rendered = rendered,
                        !.resultMessage =
                            [data |-> ToUint8Each(BufferGet(rendered, width, height)),
                             width |-> width, height |-> height],
                        !.workerKeeps =
                            KeepsAfterPost("resultArray.buffer",
                                SendMessageTransferList({"resultArray.buffer"}))]
    /\ UNCHANGED <<wasmUrl, nReplies, cleanedUp, progressive, yielded, gl, mp, toWorker, toMain,
                   crashed>>
    /\ UNCHANGED workerVars
    /\ UNCHANGED mainVars

\* handleMessage, case 'result', lines 142-154: the value the promise is
\* resolved with
DataMainResult ==
    /\ dp.pc = "answered"
    /\ dp' = [dp EXCEPT !.pc = "settled",
                        !.result = [data |-> TypedArrayView(dp.resultMessage.data),
                                    width |-> dp.resultMessage.width,
                                    height |-> dp.resultMessage.height]]
    /\ UNCHANGED <<wasmUrl, nReplies, cleanedUp, progressive, yielded, gl, mp, toWorker, toMain,
                   crashed>>
    /\ UNCHANGED workerVars
    /\ UNCHANGED mainVars

NextData ==
    \/ DataProcess
    \/ DataWorkerBuild
    \/ DataWorkerResult
    \/ DataMainResult

\* an initialized dispatcher and worker, no request made yet
InitData == Init /\ wasmUrl = GoodUrl

SpecData == InitData /\ [][NextData]_vars

\* ---- properties ----------------------------------------------------------
Last(q) == q[Len(q)]

NonDecreasing(q) == \A a, b \in 1..Len(q) : a <= b => q[a] <= q[b]

EmptyOps(j) == calls[j].status # "none" /\ calls[j].req.operations = <<>>

\* the Process message of call j is on its way to the worker, or was handled
Posted(j) ==
    \/ \E i \in 1..Len(toWorker) : toWorker[i].type = "process" /\ toWorker[i].id = j
    \/ emitted[j].terminal # "none"
    \/ emitted[j].processor

\* C1: a process() call made while an earlier process() promise is unsettled
\* is never accepted (no Process message is posted for it), and when it fails
\* it fails with 'Worker is already processing'.
C1_AlreadyProcessing ==
    \A j \in CallIds :
        calls[j].earlier =>
            /\ calls[j].status \notin {"pending", "resolved"}
            /\ ~Posted(j)

\* C2: a request for which cancel() posted Cancel before the worker finished
\* it does not end with a Result: its promise is never resolved.
C2_CancelEndsCancelled ==
    \A j \in CallIds : calls[j].cancelled => calls[j].status # "resolved"

\* The while-loop of handleProcess never sees isCancelled set: the handler
\* resets the flag and runs to completion before handleCancel can run.
CancelNeverObserved ==
    wpc \in {"loop", "after"} => ~wk.isCancelled

\* C4: a processing error leaves the worker initialized and idle, the Error
\* response clears the dispatcher's busy flag and resolvers without touching
\* isInitialized, and the process() call that follows an errored request on
\* the initialized dispatcher is accepted and posted.
C4_Step ==
    /\ (\E j \in CallIds : /\ wk.isInitialized
                           /\ emitted[j].terminal = "none"
                           /\ emitted'[j].terminal = "error")
          => (wk'.isInitialized /\ wpc' = "idle")
    /\ ( /\ MainCanReceive("error")
         /\ toMain' = Tail(toMain)
         /\ gw.processRejecter # 0
         /\ gw.processRejecter = Head(toMain).id )
          => /\ ~gw'.isProcessing
             /\ gw'.processRejecter = 0 /\ gw'.processResolver = 0
             /\ gw'.isInitialized = gw.isInitialized
             /\ calls'[Head(toMain).id].status = "rejected"
    /\ \A j \in CallIds :
         ( /\ calls[j].status = "none" /\ calls'[j].status # "none"
           /\ gw.isInitialized
           /\ \E i \in CallIds : calls[i].code = "error" /\ calls[i].from = i
           /\ \A i \in CallIds : ~Unsettled(calls[i]) )
          => /\ calls'[j].status = "pending"
             /\ toWorker' = Append(toWorker, ProcessMsg(j, calls'[j].req))

C4_ReusableAfterError == [][C4_Step]_vars

C4_Witness ==
    /\ calls[1].status = "rejected" /\ calls[1].code = "error" /\ calls[1].from = 1
    /\ emitted[1].terminal = "error"
    /\ calls[2].status = "resolved" /\ emitted[2].terminal = "result"

\* C5: a process() call with an empty operation list is never resolved and no
\* Result is emitted for it: the only answer the worker gives it is Error.
C5_EmptyPipelineFails ==
    \A j \in CallIds :
        EmptyOps(j) =>
            /\ calls[j].status # "resolved"
            /\ emitted[j].terminal \in {"none", "error"}
            /\ \A i \in 1..Len(toMain) : toMain[i].id = j => toMain[i].type = "error"

C5_Witness ==
    \E j \in CallIds :
        /\ EmptyOps(j)
        /\ calls[j].status = "rejected" /\ calls[j].code = "error" /\ calls[j].from = j

\* C6, as stated: no Process message with an empty operation list is ever
\* posted to the worker.
C6_NothingPosted ==
    \A i \in 1..Len(toWorker) :
        toWorker[i].type = "process" => toWorker[i].operations # <<>>

\* C6, amended: the dispatcher does not inspect the list; an accepted call
\* with an empty list has its Process message posted, and it is the worker
\* that fails it, before creating any node or processor, running any unit of
\* work or emitting Progress.
C6_EmptyPostedFailsInWorker ==
    \A j \in CallIds :
        EmptyOps(j) =>
            /\ (calls[j].status = "pending" /\ ~terminated) => Posted(j)
            /\ ~emitted[j].processor
            /\ emitted[j].work = 0
            /\ emitted[j].nodes = <<>>
            /\ emitted[j].progress = <<>>

C6_Witness ==
    \E i \in 1..Len(toWorker) :
        toWorker[i].type = "process" /\ toWorker[i].operations = <<>>

\* C7: when a node constructor throws for an operation name, the request is
\* answered Error, no processor is created, no unit of work is run and no
\* Progress or Result is emitted, wherever the name stands in the list.
C7_UnknownOperationFailsFast ==
    \A j \in CallIds :
        emitted[j].threw =>
            /\ emitted[j].terminal = "error"
            /\ ~emitted[j].processor
            /\ emitted[j].work = 0
            /\ emitted[j].progress = <<>>
            /\ \A i \in 1..Len(toMain) : toMain[i].id = j => toMain[i].type = "error"

C7_Witness ==
    \E j \in CallIds :
        /\ emitted[j].threw
        /\ Len(emitted[j].nodes) >= 1
        /\ emitted[j].terminal = "error"

\* C8: every Result carries the width and height of the request it answers,
\* in the message and in the value the promise is resolved with.
C8_ResultKeepsDimensions ==
    /\ \A j \in CallIds :
         calls[j].status = "resolved" =>
            /\ calls[j].result.width = calls[j].req.width
            /\ calls[j].result.height = calls[j].req.height
    /\ \A i \in 1..Len(toMain) :
         toMain[i].type = "result" =>
            /\ toMain[i].imageData.width = ShapeOf(toMain[i].id).width
            /\ toMain[i].imageData.height = ShapeOf(toMain[i].id).height

C8_Witness ==
    \E j \in CallIds :
        /\ calls[j].status = "resolved"
        /\ calls[j].result.width # calls[j].result.height

\* C9: the last Progress value of a request answered Result is 1.0, and the
\* last Progress value of a request answered Cancelled or Error is below 1.0.
C9_ProgressEndsAtOne ==
    \A j \in CallIds :
        /\ emitted[j].terminal = "result" =>
              /\ emitted[j].progress # <<>>
              /\ Last(emitted[j].progress) = ProgressOne
        /\ (emitted[j].terminal \in {"error", "cancelled"} /\ emitted[j].progress # <<>>)
              => Last(emitted[j].progress) < ProgressOne

\* C10: within one request the Progress values emitted by the worker, and
\* those handed to the progress callback, never decrease and lie in [0,1].
C10_ProgressMonotone ==
    \A j \in CallIds :
        /\ NonDecreasing(emitted[j].progress)
        /\ NonDecreasing(cbLog[j])
        /\ \A i \in 1..Len(emitted[j].progress) :
              emitted[j].progress[i] \in 0..ProgressOne
        /\ \A i \in 1..Len(cbLog[j]) : cbLog[j][i] \in 0..ProgressOne

C10_Witness ==
    \E j \in CallIds : Len(emitted[j].progress) >= 2 /\ Len(cbLog[j]) >= 2

\* the step in which handleMessage takes the message at the head of toMain
MainHandles(type) ==
    /\ mpc = "run"
    /\ toMain # <<>>
    /\ Head(toMain).type = type
    /\ toMain' = Tail(toMain)

\* C11: handling a Progress message invokes the progress callback exactly
\* once, after all earlier invocations and with the message's value, when a
\* callback is set, and not at all when none is set; in both cases no other
\* part of the dispatcher's state changes and nothing is posted.
C11_Step ==
    MainHandles("progress") =>
        LET m == Head(toMain) IN
        /\ gw.onProgress => cbLog' = [cbLog EXCEPT ![m.id] = Append(@, m.progress)]
        /\ ~gw.onProgress => cbLog' = cbLog
        /\ UNCHANGED <<gw, terminated, initP, initTimer, calls, toWorker>>

C12_TimerSettlesInit ==
    \A k \in InitIds :
        (initP[k] # "none" /\ ~initTimer[k]) => initP[k] \in {"resolved", "rejected"}

\* C13: when the engine cannot be loaded, so that the worker answers Error to
\* every Init message, no init() promise is resolved and the dispatcher stays
\* uninitialized.
C13_InitErrorRejects ==
    wasmUrl = BadUrl =>
        /\ \A k \in InitIds : initP[k] # "resolved"
        /\ ~gw.isInitialized

\* C14: when handleError runs for the Worker's error event, every process()
\* promise that is unsettled is rejected with the worker-fault error, the
\* busy flag is cleared and nothing is posted to the worker.
C14_Step ==
    MainHandles("errorevent") =>
        /\ \A j \in CallIds :
             Unsettled(calls[j]) =>
                /\ calls'[j].status = "rejected"
                /\ calls'[j].code = "fault"
        /\ ~gw'.isProcessing
        /\ toWorker' = toWorker

C14_FaultRejectsPending == [][C14_Step]_vars

\* C15: cleanup() is enabled in every state of the dispatcher and completes
\* without a step of the worker; it leaves isInitialized and isProcessing
\* false and the worker terminated, with nothing queued in either direction;
\* a cleanup() on an already cleaned up dispatcher changes nothing.
C15_Clean ==
    terminated =>
        /\ ~gw.isInitialized
        /\ ~gw.isProcessing
        /\ toWorker = <<>>
        /\ toMain = <<>>

C15_Step ==
    /\ (mpc = "terminating" /\ mpc' = "run") =>
          /\ terminated'
          /\ ~gw'.isInitialized
          /\ ~gw'.isProcessing
    /\ (terminated /\ mpc' # mpc) =>
          UNCHANGED <<gw, terminated, toWorker, toMain, initP, initTimer, calls, cbLog>>

C15_CleanupIdempotent ==
    /\ []C15_Clean
    /\ []((mpc = "run" /\ nApi < MaxApi) => ENABLED AppCleanup)
    /\ [](mpc = "terminating" => ENABLED AppCleanupTerminate)
    /\ [][C15_Step]_vars

C15_Witness == terminated /\ mpc = "terminating"

\* C16: once the worker has handled Cleanup it is never initialized again
\* and the only message it may still emit is Error.
C16_Step ==
    cleanedUp =>
        /\ ~wk'.isInitialized
        /\ toMain' # toMain => Last(toMain').type = "error"

C16_CleanupIsTerminal == [][C16_Step]_vars

\* the step in which self.onmessage takes the message at the head of toWorker
WorkerHandles(type) ==
    /\ WorkerCanReceive(type)
    /\ toWorker' = Tail(toWorker)

\* C17: a Process message handled while the worker is not initialized is
\* answered with Error at once: no node and no processor is created, no unit
\* of work is run, no Progress is emitted and the worker's globals, its
\* position and the engine's state stay as they were.
C17_Step ==
    (WorkerHandles("process") /\ ~wk.isInitialized) =>
        LET j == Head(toWorker).id IN
        /\ toMain' = Append(toMain, ErrorMsg(j))
        /\ emitted'[j].terminal = "error"
        /\ emitted'[j].nodes = <<>>
        /\ ~emitted'[j].processor
        /\ emitted'[j].work = 0
        /\ emitted'[j].progress = <<>>
        /\ UNCHANGED <<wk, wpc, wloc, initTasks, gegl_initialized>>

C17_ProcessNeedsReady == [][C17_Step]_vars

\* a request was answered Error by a worker that was never initialized, while
\* an Init is still suspended at its await
C17_Witness ==
    \E j \in CallIds :
        /\ emitted[j].terminal = "error"
        /\ ~gegl_initialized /\ ~cleanedUp
        /\ initTasks > 0

\* C18: a cancel() made while no process() call is unsettled posts nothing
\* and leaves isInitialized, isProcessing and the resolvers as they were.
\* The step is cancel() when it is an application call that is none of
\* init(), process(), setProgressCallback() and cleanup().
C18_Step ==
    ( /\ nApi' = nApi + 1
      /\ initP' = initP
      /\ \A j \in CallIds : calls'[j].status = calls[j].status
      /\ gw'.onProgress = gw.onProgress
      /\ mpc' = mpc
      /\ \A j \in CallIds : ~Unsettled(calls[j]) )
        => /\ toWorker' = toWorker
           /\ gw' = gw
           /\ UNCHANGED <<terminated, calls, initTimer>>

C18_IdleCancelIsNoOp == [][C18_Step]_vars

\* cancel() was the only call made, on a fresh dispatcher
C18_Witness ==
    /\ nApi = 1
    /\ mpc = "run" /\ ~terminated
    /\ \A k \in InitIds : initP[k] = "none"
    /\ \A j \in CallIds : calls[j].status = "none"
    /\ ~gw.onProgress
    /\ toWorker = <<>>

\* C19: when a process() promise becomes rejected, its error carries the code
\* 'CANCELLED' exactly when the rejection is the handling of a Cancelled
\* message; and a Cancelled message handled while a request is in flight
\* rejects that request's promise.
C19_Step ==
    /\ \A j \in CallIds :
         (calls[j].status # "rejected" /\ calls'[j].status = "rejected") =>
            (ErrorCode(calls'[j].code) = "CANCELLED" <=> MainHandles("cancelled"))
    /\ (MainHandles("cancelled") /\ gw.processRejecter # 0) =>
          /\ calls'[gw.processRejecter].status = "rejected"
          /\ ErrorCode(calls'[gw.processRejecter].code) = "CANCELLED"

C19_CancelledCode == [][C19_Step]_vars

C19_Witness ==
    /\ \E j \in CallIds : calls[j].status = "rejected" /\ calls[j].code = "cancelled"
    /\ \E j \in CallIds : calls[j].status = "rejected" /\ calls[j].code # "cancelled"

\* C20: a process() call made on an initialized dispatcher is accepted, also
\* when the promise of an earlier call is still unsettled.
C20_Step ==
    \A j \in CallIds :
        (gw.isInitialized /\ calls[j].status = "none" /\ calls'[j].status # "none")
            => calls'[j].status = "pending"

C20_BackToBackAccepted == [][C20_Step]_vars

\* C28: the yield interval of a GeglWasmProgressive is at least 1 in every
\* state, whatever interval was requested, and the remainder of the work step
\* never has a zero divisor.
C28_YieldIntervalPositive ==
    /\ progressive.yield_interval >= 1
    /\ ~yielded.trapped

\* set_yield_interval(0) was the last request and work was done after it
C28_Witness ==
    /\ yielded.requested = 0
    /\ yielded.sinceSet >= 1
    /\ progressive.yield_interval = 1

\* C29: every call of the work step runs exactly one unit of engine work and
\* yields exactly when the new work count is a multiple of the interval N; a
\* call that does not yield leaves fewer than N units run since the last
\* yield, so that at most N units run between two yields.
C29_Step ==
    progressive'.work_count # progressive.work_count =>
        LET N == progressive.yield_interval IN
        /\ yielded'.units = yielded.units + 1
        /\ yielded'.since = 0 <=> progressive'.work_count % N = 0
        /\ yielded'.since < N

C29_YieldEveryN == [][C29_Step]_vars


\* C27: whenever the worker is not processing a request it holds no
\* processor: currentProcessor is null after every terminal response
\* (Result, Cancelled or Error).
C27_ProcessorReleased ==
    (WorkerRuns /\ wpc = "idle") => wk.currentProcessor = NoProcessor


\* C21: process() on a dispatcher that is not initialized runs init() itself;
\* a Process message is posted only once a Ready message has been received,
\* and a call whose initialization ended without Ready (Error, error event
\* or timeout) is rejected and posts no Process message.
C21_Step ==
    /\ (/\ Len(toWorker') = Len(toWorker) + 1
        /\ Last(toWorker').type = "process")
       => gw'.isInitialized
    /\ \A j \in CallIds :
        (/\ calls[j].status = "awaitInit"
         /\ calls'[j].status # "awaitInit"
         /\ ~gw'.isInitialized)
        => (calls'[j].status = "rejected" /\ toWorker' = toWorker)

C21_ProcessAfterReady == [][C21_Step]_vars


\* the step in which cancel() posts its Cancel message
CancelPosted ==
    /\ Len(toWorker') = Len(toWorker) + 1
    /\ Last(toWorker').type = "cancel"

\* what cancel() leaves alone while a request is in flight, and what settles
\* the pending promise afterwards
CancelIsAdvisory ==
    /\ CancelPosted =>
        /\ gw.isProcessing
        /\ gw' = gw
        /\ terminated' = terminated
        /\ initP' = initP
        /\ toMain' = toMain
        /\ \A j \in CallIds : calls'[j].status = calls[j].status
    /\ \A j \in CallIds :
        (calls[j].status = "pending" /\ calls'[j].status # "pending")
            => \/ MainHandles("result")
               \/ MainHandles("error")
               \/ MainHandles("cancelled")
               \/ MainHandles("errorevent")

\* C30: cancel() with a request in flight only posts Cancel: the dispatcher's
\* fields, the worker handle and every promise stay as they are, the pending
\* promise is settled only by a Result, Error, Cancelled or error event, and
\* a process() call made while isProcessing is true fails as already
\* processing.
C30_Step ==
    /\ CancelIsAdvisory
    /\ \A j \in CallIds :
        (gw.isProcessing /\ calls[j].status = "none" /\ calls'[j].status # "none")
            => (calls'[j].status = "rejected" /\ calls'[j].code = "busy")

C30_CancelOnlyPosts == [][C30_Step]_vars

CancelIsAdvisoryAlways == [][CancelIsAdvisory]_vars


\* C24: handling a Process message whose operation list has n >= 1
\* descriptors, all of which the engine accepts, creates n nodes, node i from
\* descriptor i, and n-1 connections, the i-th from pad "output" of node i to
\* pad "input" of node i+1, and attaches the processor to node n.
C24_Step ==
    \A j \in CallIds :
        (/\ WorkerHandles("process")
         /\ Head(toWorker).id = j
         /\ emitted'[j].processor)
        => LET operations == Head(toWorker).operations
               n == Len(operations)
           IN
           /\ n >= 1
           /\ emitted'[j].nodes = operations
           /\ Len(emitted'[j].conns) = n - 1
           /\ \A i \in 1..(n - 1) :
                emitted'[j].conns[i] =
                    [source |-> i, output |-> "output", sink |-> i + 1, input |-> "input"]
           /\ emitted'[j].attached = n

C22_CallerBufferDetached ==
    dp.pc # "idle" => dp.caller.detached

\* C22: once process() has posted the Process message, the message carries
\* the caller's bytes and dimensions; the ArrayBuffer of a plain object is
\* detached (empty to the caller), while of an ImageData a copy was
\* transferred and the caller's ImageData is still readable and unchanged.
C22_TransferDetachesPlainBuffer ==
    dp.pc # "idle" =>
        /\ dp.message.data = dp.original
        /\ dp.message.width = dp.caller.width
        /\ dp.message.height = dp.caller.height
        /\ dp.caller.kind = "plain" =>
            (dp.caller.detached /\ dp.caller.data = <<>>)
        /\ dp.caller.kind = "ImageData" =>
            (~dp.caller.detached /\ dp.caller.data = dp.original)

C22_Witness ==
    /\ dp.pc = "posted"
    /\ dp.caller.kind = "ImageData"
    /\ ~dp.caller.detached
    /\ Len(dp.original) = 2 * BytesPerPixel
    /\ dp.message.data = dp.original

C25_InvertOfInput ==
    (/\ dp.pc = "settled"
     /\ dp.operations = <<[operation |-> GoodOp, properties |-> <<>>]>>)
    => /\ dp.result.width = dp.caller.width
       /\ dp.result.height = dp.caller.height
       /\ dp.result.data = Invert(dp.original)
       /\ dp.nodes[1].input = "buffer"

\* the settings a list of properties asks for: one for each string, number
\* and {r,g,b,a} value, in order
TypedProperties(properties) ==
    SelectSeq(properties, LAMBDA p : p.value.type \in {"string", "number", "object"})

\* C26: every string property is set on its node as a textual property,
\* every number as a scalar and every {r,g,b,a} object as a colour with
\* exactly the components r, g, b and a, a = 0 included.
C26_PropertyDispatch ==
    dp.pc \in {"built", "answered", "settled"} =>
        \A i \in 1..Len(dp.nodes) :
            LET typed == TypedProperties(dp.operations[i].properties)
                settings == dp.nodes[i].settings
            IN
            /\ Len(settings) = Len(typed)
            /\ \A k \in 1..Len(typed) :
                LET value == typed[k].value IN
                /\ settings[k].key = typed[k].key
                /\ value.type = "string" =>
                    (settings[k].kind = "string" /\ settings[k].string = value.string)
                /\ value.type = "number" =>
                    (settings[k].kind = "double" /\ settings[k].number = value.number)
                /\ value.type = "object" =>
                    (/\ settings[k].kind = "color"
                     /\ settings[k].rgba = <<value.r, value.g, value.b, value.a>>)


\* the positions of toMain that hold a message about request j of one of
\* the given types
About(j, types) ==
    {n \in 1..Len(toMain) : toMain[n].id = j /\ toMain[n].type \in types}

\* C31: for every Process message the worker has finished handling, the
\* messages it emitted hold exactly one terminal message (Result, Error or
\* Cancelled) of that request, after every Progress of that request; a
\* request still being handled has none yet, and the messages of one request
\* are not interleaved with those of another.
C31_OneTerminal ==
    LET AboutRequest(m) == m.id \in CallIds
        replies == SelectSeq(toMain, AboutRequest)
    IN
    /\ \A j \in CallIds :
        LET running == wpc # "idle" /\ wloc.id = j
            terminal == \E t \in 1..Len(replies) :
                            replies[t].id = j /\ replies[t].type # "progress"
        IN
        /\ (emitted[j] # NoEmit /\ ~running) => terminal
        /\ running => ~terminal
        /\ emitted[j] = NoEmit => \A t \in 1..Len(replies) : replies[t].id # j
    /\ \A k \in 1..Len(replies) :
        /\ replies[k].type \in {"progress", "result", "error", "cancelled"}
        /\ k > 1 =>
            /\ replies[k - 1].id <= replies[k].id
            /\ replies[k - 1].id = replies[k].id => replies[k - 1].type = "progress"

C31_Witness ==
    /\ wpc = "idle"
    /\ \E i, j \in CallIds :
        /\ i < j
        /\ About(i, {"progress"}) # {}
        /\ About(i, {"result"}) # {}
        /\ About(j, {"error"}) # {}


\* ---- scheduling ------------------------------------------------------------
\* the worker's event loop runs a handler whenever a message or a suspended
\* handler is waiting; handleProcess runs to its end once started
WorkerSteps ==
    \/ WorkerOnInit
    \/ WorkerInitFinish
    \/ WorkerOnProcess
    \/ WorkerLoop
    \/ WorkerAfterLoop
    \/ WorkerOnCancel
    \/ WorkerOnCleanup

\* the main thread's event loop delivers every response and fires every
\* timer; cleanup() runs to its end
MainSteps ==
    \/ AppCleanupTerminate
    \/ TimerFire
    \/ MainOnReady
    \/ MainOnProgress
    \/ MainOnResult
    \/ MainOnError
    \/ MainOnErrorEvent

SpecFair == Spec /\ WF_vars(WorkerSteps) /\ WF_vars(MainSteps)

\* a dispatcher that is never cleaned up, on a worker whose engine loads and
\* whose context stays alive
NextRunning ==
    \/ AppInit
    \/ AppProcess
    \/ AppCancel
    \/ AppSetProgressCallback
    \/ TimerFire
    \/ MainOnReady
    \/ MainOnProgress
    \/ MainOnResult
    \/ MainOnError
    \/ WorkerOnInit
    \/ WorkerInitFinish
    \/ WorkerOnProcess
    \/ WorkerLoop
    \/ WorkerAfterLoop
    \/ WorkerOnCancel

InitRunning == Init /\ wasmUrl = GoodUrl

SpecRunning ==
    InitRunning /\ [][NextRunning]_vars /\ WF_vars(WorkerSteps) /\ WF_vars(MainSteps)

\* C32: a process() promise that is pending on an initialized dispatcher is
\* eventually resolved or rejected, with or without a cancel() in between,
\* when the dispatcher is not cleaned up and the worker keeps running.
C32_EventuallySettles ==
    \A j \in CallIds :
        (calls[j].status = "pending" /\ gw.isInitialized)
            ~> calls[j].status \in {"resolved", "rejected"}

C32_Witness ==
    \E j \in CallIds :
        /\ calls[j].cancelled
        /\ calls[j].status = "resolved"
        /\ gw.isInitialized
        /\ ~terminated /\ ~crashed


\* C33: a process() promise that is pending when cleanup() has run is
\* eventually rejected, and after cleanup() the dispatcher holds no resolver
\* of a request.
C33_CleanupSettlesPending ==
    /\ \A j \in CallIds :
        (calls[j].status = "pending" /\ terminated) ~> (calls[j].status = "rejected")
    /\ [](terminated => (gw.processResolver = 0 /\ gw.processRejecter = 0))


\* C34: every promise returned by init() is eventually resolved or rejected,
\* also when init() or an initializing process() was called again before it
\* settled.
C34_InitSettles ==
    \A k \in InitIds : (initP[k] = "pending") ~> (initP[k] \in {"resolved", "rejected"})


C36_OwnResponse ==
    \A j \in CallIds :
        ( /\ \A i \in CallIds : ~calls[i].earlier
          /\ \/ calls[j].status = "resolved"
             \/ calls[j].status = "rejected" /\ calls[j].code \in {"error", "cancelled"} )
            => calls[j].from = j


\* C37: once the worker has posted Result, the result buffer has been
\* transferred: the worker no longer has access to the result bytes.
C37_ResultBufferTransferred ==
    dp.pc \in {"answered", "settled"} => ~dp.workerKeeps


\* ---- class Gegl (high-level API, part_003 lines 466-540) --------------------
MaxGeglCalls == 4

GeglCall(op, threw, code, returned) ==
    [op |-> op, threw |-> threw, code |-> code, returned |-> returned]

Extents == {"valid", "invalid"}
Paths == {"image.png", ""}

\* line 473, "if (!this._initialized)"
InitNeededAlways(g) == TRUE

InitNeeded(g) == ~g.initialized

\* line 487, "if (this._initialized)"
ExitNeeded(g) == g.initialized

\* the guard of createGraph, createBuffer and loadBuffer, lines 510, 523, 535
NotInitializedGegl(g) == ~g.initialized

\* new GeglBuffer(extent, format), lines 31-42
NewGeglBuffer(extent, engineThrows) ==
    IF extent = "invalid"
    THEN GeglCall("createBuffer", "GeglError", "INVALID_ARGUMENT", "none")
    ELSE IF engineThrows
    THEN GeglCall("createBuffer", "GeglError", "BUFFER_OPERATION_FAILED", "none")
    ELSE GeglCall("createBuffer", "none", "none", "GeglBuffer")

\* GeglBuffer.fromFile(path), lines 49-61
FromFile(path, engineThrows) ==
    IF path = "" \/ engineThrows
    THEN GeglCall("loadBuffer", "GeglError", "null", "none")
    ELSE GeglCall("loadBuffer", "none", "none", "GeglBuffer")

\* new GeglGraph(), lines 390-397
NewGeglGraph(engineThrows) ==
    IF engineThrows
    THEN GeglCall("createGraph", "GeglError", "null", "none")
    ELSE GeglCall("createGraph", "none", "none", "GeglGraph")

\* Gegl.init(), lines 472-481; Module.initializeGegl may throw
GeglInit ==
    /\ Len(gl.log) < MaxGeglCalls
    /\ IF InitNeeded(gl)
       THEN \E engineThrows \in BOOLEAN :
            gl' = [gl EXCEPT
                     !.engineInits = @ + 1,
                     !.initialized = IF engineThrows THEN @ ELSE TRUE,
                     !.log = Append(@,
                         IF engineThrows
                         THEN GeglCall("init", "GeglError", "INITIALIZATION_FAILED", "none")
                         ELSE GeglCall("init", "none", "none", "undefined"))]
       ELSE gl' = [gl EXCEPT !.log = Append(@, GeglCall("init", "none", "none", "undefined"))]
    /\ UNCHANGED <<wasmUrl, nReplies, cleanedUp, progressive, yielded, dp, mp, toWorker, toMain,
                   crashed>>
    /\ UNCHANGED workerVars
    /\ UNCHANGED mainVars

\* Gegl.exit(), lines 486-495; Module.cleanupGegl may throw
GeglExit ==
    /\ Len(gl.log) < MaxGeglCalls
    /\ IF ExitNeeded(gl)
       THEN \E engineThrows \in BOOLEAN :
            gl' = [gl EXCEPT
                     !.engineExits = @ + 1,
                     !.initialized = IF engineThrows THEN @ ELSE FALSE,
                     !.log = Append(@,
                         IF engineThrows
                         THEN GeglCall("exit", "GeglError", "null", "none")
                         ELSE GeglCall("exit", "none", "none", "undefined"))]
       ELSE gl' = [gl EXCEPT !.log = Append(@, GeglCall("exit", "none", "none", "undefined"))]
    /\ UNCHANGED <<wasmUrl, nReplies, cleanedUp, progressive, yielded, dp, mp, toWorker, toMain,
                   crashed>>
    /\ UNCHANGED workerVars
    /\ UNCHANGED mainVars

\* Gegl.createGraph(), lines 509-514
GeglCreateGraph ==
    /\ Len(gl.log) < MaxGeglCalls
    /\ \E engineThrows \in BOOLEAN :
         gl' = [gl EXCEPT !.log = Append(@,
                   IF NotInitializedGegl(gl)
                   THEN GeglCall("createGraph", "GeglError", "null", "none")
                   ELSE NewGeglGraph(engineThrows))]
    /\ UNCHANGED <<wasmUrl, nReplies, cleanedUp, progressive, yielded, dp, mp, toWorker, toMain,
                   crashed>>
    /\ UNCHANGED workerVars
    /\ UNCHANGED mainVars

\* Gegl.createBuffer(extent, format), lines 522-527
GeglCreateBuffer ==
    /\ Len(gl.log) < MaxGeglCalls
    /\ \E extent \in Extents, engineThrows \in BOOLEAN :
         gl' = [gl EXCEPT !.log = Append(@,
                   IF NotInitializedGegl(gl)
                   THEN GeglCall("createBuffer", "GeglError", "null", "none")
                   ELSE NewGeglBuffer(extent, engineThrows))]
    /\ UNCHANGED <<wasmUrl, nReplies, cleanedUp, progressive, yielded, dp, mp, toWorker, toMain,
                   crashed>>
    /\ UNCHANGED workerVars
    /\ UNCHANGED mainVars

\* Gegl.loadBuffer(path), lines 534-539
GeglLoadBuffer ==
    /\ Len(gl.log) < MaxGeglCalls
    /\ \E path \in Paths, engineThrows \in BOOLEAN :
         gl' = [gl EXCEPT !.log = Append(@,
                   IF NotInitializedGegl(gl)
                   THEN GeglCall("loadBuffer", "GeglError", "null", "none")
                   ELSE FromFile(path, engineThrows))]
    /\ UNCHANGED <<wasmUrl, nReplies, cleanedUp, progressive, yielded, dp, mp, toWorker, toMain,
                   crashed>>
    /\ UNCHANGED workerVars
    /\ UNCHANGED mainVars

NextGegl ==
    \/ GeglInit
    \/ GeglExit
    \/ GeglCreateGraph
    \/ GeglCreateBuffer
    \/ GeglLoadBuffer

InitGegl == Init /\ wasmUrl = GoodUrl

SpecGegl == InitGegl /\ [][NextGegl]_vars

Creators == {"createGraph", "createBuffer", "loadBuffer"}

\* C38: createGraph, createBuffer and loadBuffer throw GeglError and return
\* nothing whenever Gegl is not initialized, which is the case before the first
\* init() and after an exit(); an init() directly after an init() that
\* returned, and an exit() directly after an exit() that returned, changes
\* neither the flag nor the number of engine calls.
C38_Step ==
    Len(gl'.log) = Len(gl.log) + 1 =>
        LET call == gl'.log[Len(gl'.log)]
            first == gl.log = <<>>
            before == gl.log[Len(gl.log)]
            untouched == /\ gl'.initialized = gl.initialized
                         /\ gl'.engineInits = gl.engineInits
                         /\ gl'.engineExits = gl.engineExits
        IN
        /\ (~\E n \in 1..Len(gl.log) : gl.log[n].op = "init") => ~gl.initialized
        /\ (~first /\ before.op = "exit" /\ before.threw = "none") => ~gl.initialized
        /\ (call.op \in Creators /\ ~gl.initialized) =>
              (call.threw = "GeglError" /\ call.returned = "none" /\ untouched)
        /\ (~first /\ call.op \in {"init", "exit"} /\ before.op = call.op /\ before.threw = "none") =>
              (call.threw = "none" /\ untouched)

C38_GeglGuards == [][C38_Step]_vars

C38_Witness ==
    /\ Len(gl.log) = 4
    /\ gl.log[1] = GeglCall("init", "none", "none", "undefined")
    /\ gl.log[2] = GeglCall("init", "none", "none", "undefined")
    /\ gl.log[3] = GeglCall("exit", "none", "none", "undefined")
    /\ gl.log[4] = GeglCall("createBuffer", "GeglError", "null", "none")
    /\ gl.engineInits = 1
    /\ gl.engineExits = 1


\* ---- MemoryProfiler (memory-profiler.js) ------------------------------------
MaxSnapshots == 3
MaxTime == 3
HeapSizes == {1, 2}

\* the snapshot _takeSnapshot builds, lines 123-141: elapsed is measured from
\* startTime, and is 0 while startTime is null
Snapshot(p) ==
    [timestamp |-> p.now,
     elapsed |-> IF p.startTime # 0 THEN p.now - p.startTime ELSE 0,
     heapSize |-> p.heapSize]

\* _takeSnapshot, lines 122-146: the snapshot is pushed onto this.snapshots
TakeSnapshot(p) == [p EXCEPT !.snapshots = Append(@, Snapshot(p))]

PeakHeap(snaps) ==
    CHOOSE h \in {snaps[n].heapSize : n \in 1..Len(snaps)} :
        \A n \in 1..Len(snaps) : snaps[n].heapSize <= h

\* _generateSummary, lines 389-418, over this.snapshots as it is when called
GenerateSummary(snaps) ==
    IF Len(snaps) < 2
    THEN [hasSummary |-> FALSE, duration |-> 0, totalSamples |-> 0, peakMemoryUsage |-> 0]
    ELSE [hasSummary |-> TRUE,
          duration |-> snaps[Len(snaps)].elapsed - snaps[1].elapsed,
          totalSamples |-> Len(snaps),
          peakMemoryUsage |-> PeakHeap(snaps)]

\* the history testReportGeneration assigns to profiler.snapshots
\* (part_002 lines 213-230), in units of 1000 ms and 500 bytes
TestSnapshots ==
    << [timestamp |-> 1, elapsed |-> 0, heapSize |-> 2],
       [timestamp |-> 2, elapsed |-> 1, heapSize |-> 3] >>

\* start(options), lines 58-81
ProfilerStart ==
    /\ ~mp.isProfiling
    /\ mp' = TakeSnapshot([mp EXCEPT !.isProfiling = TRUE, !.startTime = mp.now,
                                     !.snapshots = <<>>])
    /\ UNCHANGED <<wasmUrl, nReplies, cleanedUp, progressive, yielded, dp, gl, toWorker, toMain,
                   crashed>>
    /\ UNCHANGED workerVars
    /\ UNCHANGED mainVars

\* the setInterval callback of start(), lines 75-77
ProfilerSample ==
    /\ mp.isProfiling
    /\ Len(mp.snapshots) < MaxSnapshots
    /\ mp' = TakeSnapshot(mp)
    /\ UNCHANGED <<wasmUrl, nReplies, cleanedUp, progressive, yielded, dp, gl, toWorker, toMain,
                   crashed>>
    /\ UNCHANGED workerVars
    /\ UNCHANGED mainVars

\* stop(), lines 86-99
ProfilerStop ==
    /\ mp.isProfiling
    /\ Len(mp.snapshots) < MaxSnapshots
    /\ mp' = TakeSnapshot([mp EXCEPT !.isProfiling = FALSE])
    /\ UNCHANGED <<wasmUrl, nReplies, cleanedUp, progressive, yielded, dp, gl, toWorker, toMain,
                   crashed>>
    /\ UNCHANGED workerVars
    /\ UNCHANGED mainVars

\* clear(), lines 607-617
ProfilerClear ==
    /\ mp' = [mp EXCEPT !.snapshots = <<>>, !.startTime = 0]
    /\ UNCHANGED <<wasmUrl, nReplies, cleanedUp, progressive, yielded, dp, gl, toWorker, toMain,
                   crashed>>
    /\ UNCHANGED workerVars
    /\ UNCHANGED mainVars

\* "profiler.snapshots = [...]" on a profiler that was never started
AssignSnapshots ==
    /\ ~mp.isProfiling
    /\ mp.startTime = 0
    /\ mp' = [mp EXCEPT !.snapshots = TestSnapshots]
    /\ UNCHANGED <<wasmUrl, nReplies, cleanedUp, progressive, yielded, dp, gl, toWorker, toMain,
                   crashed>>
    /\ UNCHANGED workerVars
    /\ UNCHANGED mainVars

\* getReport(), lines 105-116: _takeSnapshot runs first, history is the array
\* this.snapshots itself and the summary is computed after the push
ProfilerGetReport ==
    /\ Len(mp.snapshots) < MaxSnapshots
    /\ LET q == TakeSnapshot(mp)
           summary == GenerateSummary(q.snapshots)
       IN mp' = [q EXCEPT !.report =
                    [made |-> TRUE, before |-> mp.snapshots, history |-> q.snapshots,
                     current |-> Snapshot(mp), hasSummary |-> summary.hasSummary,
                     duration |-> summary.duration,
                     totalSamples |-> summary.totalSamples]]
    /\ UNCHANGED <<wasmUrl, nReplies, cleanedUp, progressive, yielded, dp, gl, toWorker, toMain,
                   crashed>>
    /\ UNCHANGED workerVars
    /\ UNCHANGED mainVars

\* performance.now() advances
ClockTick ==
    /\ mp.now < MaxTime
    /\ mp' = [mp EXCEPT !.now = @ + 1]
    /\ UNCHANGED <<wasmUrl, nReplies, cleanedUp, progressive, yielded, dp, gl, toWorker, toMain,
                   crashed>>
    /\ UNCHANGED workerVars
    /\ UNCHANGED mainVars

\* the WebAssembly heap (Module.HEAPU8.length) grows
HeapGrow ==
    /\ mp.heapSize + 1 \in HeapSizes
    /\ mp' = [mp EXCEPT !.heapSize = @ + 1]
    /\ UNCHANGED <<wasmUrl, nReplies, cleanedUp, progressive, yielded, dp, gl, toWorker, toMain,
                   crashed>>
    /\ UNCHANGED workerVars
    /\ UNCHANGED mainVars

NextProfiler ==
    \/ ProfilerStart
    \/ ProfilerSample
    \/ ProfilerStop
    \/ ProfilerClear
    \/ AssignSnapshots
    \/ ProfilerGetReport
    \/ ClockTick
    \/ HeapGrow

InitProfiler == Init /\ wasmUrl = GoodUrl

SpecProfiler == InitProfiler /\ [][NextProfiler]_vars

\* C39: getReport() leaves the recorded snapshot history as it was: the
\* report's history is the history recorded before the call, and with n >= 2
\* snapshots recorded its summary has totalSamples = n and duration = the
\* elapsed time of the last recorded snapshot minus that of the first.
C39_ReportKeepsHistory ==
    mp.report.made =>
        LET recorded == mp.report.before
            n == Len(recorded)
        IN
        /\ mp.report.history = recorded
        /\ n >= 2 =>
            /\ mp.report.hasSummary
            /\ mp.report.totalSamples = n
            /\ mp.report.duration = recorded[n].elapsed - recorded[1].elapsed

====
